---- MODULE Spec2Model ----
(***************************************************************************)
(* Ronary Inventory System (src/app.py): the SQLite ledger store           *)
(* (products, locations, stock, movements) and the operations on it.       *)
(*                                                                         *)
(* Every store statement of the program goes through exec_sql, which opens *)
(* a connection, executes ONE statement, commits and closes.  The store    *)
(* primitives below are those single committed statements; the handlers    *)
(* (apply_in, apply_out, ...) are their sequential composition.            *)
(*                                                                         *)
(* Spec      : one caller, every handler runs to completion (one action).  *)
(* SpecLedger: one caller that only calls the four apply_* handlers, with  *)
(*             wider arguments, on a store that holds two products.        *)
(* SpecInOut : one caller that only calls apply_in / apply_out.            *)
(* SpecSteps : several callers, interleaved between committed statements.  *)
(* SpecRows  : add_product statement by statement, with ensure_stock_row    *)
(*             called in between.                                          *)
(* SpecProducts: one caller that adds, edits and imports products.         *)
(*                                                                         *)
(* Not modelled: the wall-clock columns stock.updated_at and movements.ts, *)
(* the free-text columns reason / notes (except the "prev= new= delta="    *)
(* suffix apply_adjust writes into notes), the product attributes other    *)
(* than product_name, and the Streamlit pages.                             *)
(***************************************************************************)
EXTENDS Integers, Sequences, FiniteSets, TLC

VARIABLES
    products,    \* table products : sku -> [product_name, created_at]
    locations,   \* table locations: set of location names
    stock,       \* table stock    : <<sku, location>> -> [qty, low_stock_threshold]
    movements,   \* table movements: rows in insertion order
    seq,         \* sqlite_sequence value of movements (AUTOINCREMENT)
    last,        \* history: the call that completed last, and its outcome
    tally,       \* history: per <<sku, location>>, successful apply_in/apply_out calls
    syncBase,    \* history: per <<sku, location>>, what import_stock_csv last set
    pc,          \* SpecSteps: where each caller stands inside its handler
    call         \* SpecSteps: the arguments and locals of each caller's handler

vars == <<products, locations, stock, movements, seq, last, tally, syncBase, pc, call>>

\* ------------------------------------------------------------------ bounds
MaxQty == 2      \* calls that would raise a stock quantity above this are not issued
MaxMoves == 2    \* calls that would grow the movement log beyond this are not issued
MaxRows == 2     \* rows of an imported CSV frame

\* ------------------------------------------------------------------ inputs
DEFAULT_LOCATIONS == {"STUDIO", "GUDANG", "TOKOPEDIA", "SHOPEE"}

None == "None"

\* the arguments the claims quantify over
AnySku == {"A", "B", "ZZ"}
AnyLoc == DEFAULT_LOCATIONS \cup {"NEW"}
AnyQty == (0 - 1)..(MaxQty + 1)

\* ------------------------------------------------------------------ store
DB == [products |-> products, locations |-> locations, stock |-> stock,
       movements |-> movements, seq |-> seq]

EmptyDB == [products |-> <<>>, locations |-> {}, stock |-> <<>>,
            movements |-> <<>>, seq |-> 0]

\* init_db: the four empty tables, then the default locations are seeded.
init_db == [EmptyDB EXCEPT !.locations = DEFAULT_LOCATIONS]

sku_exists(d, sku) == sku \in DOMAIN d.products

location_exists(d, loc) == loc \in d.locations

\* A statement's outcome: the store after it, and whether it raised
\* (sqlite3.IntegrityError; nothing is committed then).
Done(d) == [db |-> d, exc |-> FALSE]
Exc(d) == [db |-> d, exc |-> TRUE]

\* seeded fault: INSERT OR REPLACE, an existing row is reset to 0 / 0
ensure_stock_row_Replace(d, sku, location) ==
    IF ~sku_exists(d, sku) \/ ~location_exists(d, location) THEN Exc(d)
    ELSE Done([d EXCEPT !.stock =
                 [k \in DOMAIN d.stock \cup {<<sku, location>>} |->
                    IF k = <<sku, location>>
                    THEN [qty |-> 0, low_stock_threshold |-> 0]
                    ELSE d.stock[k]]])

\* INSERT OR IGNORE INTO stock(sku, location, 0, 0, now): a primary-key conflict
\* is ignored; a foreign-key violation is not (PRAGMA foreign_keys = ON).
ensure_stock_row(d, sku, location) ==
    IF <<sku, location>> \in DOMAIN d.stock THEN Done(d)
    ELSE IF ~sku_exists(d, sku) \/ ~location_exists(d, location) THEN Exc(d)
    ELSE Done([d EXCEPT !.stock =
                 [k \in DOMAIN d.stock \cup {<<sku, location>>} |->
                    IF k \in DOMAIN d.stock THEN d.stock[k]
                    ELSE [qty |-> 0, low_stock_threshold |-> 0]]])

get_stock_qty(d, sku, location) ==
    IF <<sku, location>> \in DOMAIN d.stock THEN d.stock[<<sku, location>>].qty ELSE 0

\* UPDATE stock SET qty = qty + ? WHERE sku = ? AND location = ?  (delta may be < 0)
UpdateQtyBy(d, sku, location, delta) ==
    IF <<sku, location>> \in DOMAIN d.stock
    THEN [d EXCEPT !.stock[<<sku, location>>].qty = @ + delta]
    ELSE d

\* UPDATE stock SET qty = ? WHERE sku = ? AND location = ?
UpdateQtyTo(d, sku, location, q) ==
    IF <<sku, location>> \in DOMAIN d.stock
    THEN [d EXCEPT !.stock[<<sku, location>>].qty = q]
    ELSE d

\* UPDATE stock SET low_stock_threshold = ? WHERE sku = ? AND location = ?
UpdateThreshold(d, sku, location, thr) ==
    IF <<sku, location>> \in DOMAIN d.stock
    THEN [d EXCEPT !.stock[<<sku, location>>].low_stock_threshold = thr]
    ELSE d

Abs(n) == IF n < 0 THEN 0 - n ELSE n

\* seeded fault: INSERT OR REPLACE under a fixed id, the previous rows are lost
log_movement_Replace(d, sku, movement_type, qty, location_from, location_to, note) ==
    IF ~sku_exists(d, sku) THEN Exc(d)
    ELSE Done([d EXCEPT
                 !.movements = <<[id |-> 1,
                                  sku |-> sku,
                                  movement_type |-> movement_type,
                                  location_from |-> location_from,
                                  location_to |-> location_to,
                                  qty |-> qty,
                                  notes |-> note]>>,
                 !.seq = 1])

\* INSERT INTO movements(...): id is AUTOINCREMENT, sku references products.
\* note models the notes column: None, or the signed delta apply_adjust writes
\* into it ("... | prev= new= delta=").
log_movement(d, sku, movement_type, qty, location_from, location_to, note) ==
    IF ~sku_exists(d, sku) THEN Exc(d)
    ELSE Done([d EXCEPT
                 !.movements = Append(@, [id |-> d.seq + 1,
                                          sku |-> sku,
                                          movement_type |-> movement_type,
                                          location_from |-> location_from,
                                          location_to |-> location_to,
                                          qty |-> qty,
                                          notes |-> note]),
                 !.seq = @ + 1])

\* ------------------------------------------------------------------ handlers
\* A handler's outcome: the store it leaves, (ok, msg) as returned, or exc when
\* it raised instead of returning.
Ret(d, ok, msg) == [db |-> d, ok |-> ok, msg |-> msg, exc |-> FALSE]
Raise(d) == [db |-> d, ok |-> FALSE, msg |-> "IntegrityError", exc |-> TRUE]

\* seeded fault: the UPDATE overwrites the quantity instead of adding to it
apply_in_Overwrite(d, sku, location, qty) ==
    IF qty <= 0 THEN Ret(d, FALSE, "Qty must be > 0.")
    ELSE LET e == ensure_stock_row(d, sku, location) IN
         IF e.exc THEN Raise(e.db)
         ELSE LET u == UpdateQtyTo(e.db, sku, location, qty)
                  m == log_movement(u, sku, "IN", qty, None, location, None)
              IN  IF m.exc THEN Raise(m.db) ELSE Ret(m.db, TRUE, "Stock added.")

apply_in(d, sku, location, qty) ==
    IF qty <= 0 THEN Ret(d, FALSE, "Qty must be > 0.")
    ELSE LET e == ensure_stock_row(d, sku, location) IN
         IF e.exc THEN Raise(e.db)
         ELSE LET u == UpdateQtyBy(e.db, sku, location, qty)
                  m == log_movement(u, sku, "IN", qty, None, location, None)
              IN  IF m.exc THEN Raise(m.db) ELSE Ret(m.db, TRUE, "Stock added.")

\* seeded fault: the sufficiency check is missing
apply_out_NoCheck(d, sku, location, qty) ==
    IF qty <= 0 THEN Ret(d, FALSE, "Qty must be > 0.")
    ELSE LET e == ensure_stock_row(d, sku, location) IN
         IF e.exc THEN Raise(e.db)
         ELSE LET u == UpdateQtyBy(e.db, sku, location, 0 - qty)
                  m == log_movement(u, sku, "OUT", qty, location, None, None)
              IN  IF m.exc THEN Raise(m.db) ELSE Ret(m.db, TRUE, "Stock deducted.")

apply_out(d, sku, location, qty) ==
    IF qty <= 0 THEN Ret(d, FALSE, "Qty must be > 0.")
    ELSE LET e == ensure_stock_row(d, sku, location) IN
         IF e.exc THEN Raise(e.db)
         ELSE LET current == get_stock_qty(e.db, sku, location) IN
              IF current - qty < 0 THEN Ret(e.db, FALSE, "Insufficient stock.")
              ELSE LET u == UpdateQtyBy(e.db, sku, location, 0 - qty)
                       m == log_movement(u, sku, "OUT", qty, location, None, None)
                   IN  IF m.exc THEN Raise(m.db) ELSE Ret(m.db, TRUE, "Stock deducted.")

\* seeded fault: the movement logs the signed delta instead of its magnitude
apply_adjust_Signed(d, sku, location, new_qty) ==
    IF new_qty < 0 THEN Ret(d, FALSE, "New qty cannot be negative.")
    ELSE LET e == ensure_stock_row(d, sku, location) IN
         IF e.exc THEN Raise(e.db)
         ELSE LET current == get_stock_qty(e.db, sku, location)
                  delta == new_qty - current
                  u == UpdateQtyTo(e.db, sku, location, new_qty)
                  m == log_movement(u, sku, "ADJUST", delta, location, location,
                                    [delta |-> delta])
              IN  IF m.exc THEN Raise(m.db) ELSE Ret(m.db, TRUE, "Adjusted.")

apply_adjust(d, sku, location, new_qty) ==
    IF new_qty < 0 THEN Ret(d, FALSE, "New qty cannot be negative.")
    ELSE LET e == ensure_stock_row(d, sku, location) IN
         IF e.exc THEN Raise(e.db)
         ELSE LET current == get_stock_qty(e.db, sku, location)
                  delta == new_qty - current
                  u == UpdateQtyTo(e.db, sku, location, new_qty)
                  m == log_movement(u, sku, "ADJUST", Abs(delta), location, location,
                                    [delta |-> delta])
              IN  IF m.exc THEN Raise(m.db) ELSE Ret(m.db, TRUE, "Adjusted.")

\* seeded fault: the destination is never incremented
apply_transfer_NoAdd(d, sku, loc_from, loc_to, qty) ==
    IF loc_from = loc_to THEN Ret(d, FALSE, "From and To locations must be different.")
    ELSE IF qty <= 0 THEN Ret(d, FALSE, "Qty must be > 0.")
    ELSE LET e1 == ensure_stock_row(d, sku, loc_from) IN
         IF e1.exc THEN Raise(e1.db)
         ELSE LET e2 == ensure_stock_row(e1.db, sku, loc_to) IN
              IF e2.exc THEN Raise(e2.db)
              ELSE LET current == get_stock_qty(e2.db, sku, loc_from) IN
                   IF current - qty < 0 THEN Ret(e2.db, FALSE, "Insufficient stock.")
                   ELSE LET u1 == UpdateQtyBy(e2.db, sku, loc_from, 0 - qty)
                            m == log_movement(u1, sku, "TRANSFER", qty, loc_from, loc_to, None)
                        IN  IF m.exc THEN Raise(m.db)
                            ELSE Ret(m.db, TRUE, "Transfer completed.")

\* seeded fault: the stock check at the source is missing
apply_transfer_NoCheck(d, sku, loc_from, loc_to, qty) ==
    IF loc_from = loc_to THEN Ret(d, FALSE, "From and To locations must be different.")
    ELSE IF qty <= 0 THEN Ret(d, FALSE, "Qty must be > 0.")
    ELSE LET e1 == ensure_stock_row(d, sku, loc_from) IN
         IF e1.exc THEN Raise(e1.db)
         ELSE LET e2 == ensure_stock_row(e1.db, sku, loc_to) IN
              IF e2.exc THEN Raise(e2.db)
              ELSE LET u1 == UpdateQtyBy(e2.db, sku, loc_from, 0 - qty)
                       u2 == UpdateQtyBy(u1, sku, loc_to, qty)
                       m == log_movement(u2, sku, "TRANSFER", qty, loc_from, loc_to, None)
                   IN  IF m.exc THEN Raise(m.db)
                       ELSE Ret(m.db, TRUE, "Transfer completed.")

\* seeded fault: the same-location check is missing
apply_transfer_NoSameLoc(d, sku, loc_from, loc_to, qty) ==
    IF qty <= 0 THEN Ret(d, FALSE, "Qty must be > 0.")
    ELSE LET e1 == ensure_stock_row(d, sku, loc_from) IN
         IF e1.exc THEN Raise(e1.db)
         ELSE LET e2 == ensure_stock_row(e1.db, sku, loc_to) IN
              IF e2.exc THEN Raise(e2.db)
              ELSE LET current == get_stock_qty(e2.db, sku, loc_from) IN
                   IF current - qty < 0 THEN Ret(e2.db, FALSE, "Insufficient stock.")
                   ELSE LET u1 == UpdateQtyBy(e2.db, sku, loc_from, 0 - qty)
                            u2 == UpdateQtyBy(u1, sku, loc_to, qty)
                            m == log_movement(u2, sku, "TRANSFER", qty, loc_from, loc_to, None)
                        IN  IF m.exc THEN Raise(m.db)
                            ELSE Ret(m.db, TRUE, "Transfer completed.")

apply_transfer(d, sku, loc_from, loc_to, qty) ==
    IF loc_from = loc_to THEN Ret(d, FALSE, "From and To locations must be different.")
    ELSE IF qty <= 0 THEN Ret(d, FALSE, "Qty must be > 0.")
    ELSE LET e1 == ensure_stock_row(d, sku, loc_from) IN
         IF e1.exc THEN Raise(e1.db)
         ELSE LET e2 == ensure_stock_row(e1.db, sku, loc_to) IN
              IF e2.exc THEN Raise(e2.db)
              ELSE LET current == get_stock_qty(e2.db, sku, loc_from) IN
                   IF current - qty < 0 THEN Ret(e2.db, FALSE, "Insufficient stock.")
                   ELSE LET u1 == UpdateQtyBy(e2.db, sku, loc_from, 0 - qty)
                            u2 == UpdateQtyBy(u1, sku, loc_to, qty)
                            m == log_movement(u2, sku, "TRANSFER", qty, loc_from, loc_to, None)
                        IN  IF m.exc THEN Raise(m.db)
                            ELSE Ret(m.db, TRUE, "Transfer completed.")

\* str.strip() / str.upper() / str.replace(" ", "-") on the strings the callers
\* and the CSV cells supply (a table over the inputs drawn below).
Strip(s) ==
    CASE s = " Cap" -> "Cap"
      [] s = " Hat" -> "Hat"
      [] s = " new " -> "new"
      [] s = "a " -> "a"
      [] s = " " -> ""
      [] OTHER -> s

Upper(s) ==
    CASE s = "a" -> "A"
      [] s = "b" -> "B"
      [] s = "new" -> "NEW"
      [] s = "studio" -> "STUDIO"
      [] s = "gudang" -> "GUDANG"
      [] s = "nan" -> "NAN"
      [] OTHER -> s

Lower(s) ==
    CASE s = "NaN" -> "nan"
      [] OTHER -> s

\* (sku or "").strip().upper().replace(" ", "-"); no input below keeps an inner blank
normalize_sku(sku) == Upper(Strip(sku))

set_low_stock_threshold(d, sku, location, threshold) ==
    LET e == ensure_stock_row(d, sku, location) IN
    IF e.exc THEN Raise(e.db)
    ELSE Ret(UpdateThreshold(e.db, sku, location, threshold), TRUE, None)

get_locations(d) == d.locations

\* ensure_stock_row for every pair of a loop, stopping at the first that raises
RECURSIVE EnsureRows(_, _)
EnsureRows(d, pairs) ==
    IF pairs = {} THEN Done(d)
    ELSE LET p == CHOOSE x \in pairs : TRUE
             e == ensure_stock_row(d, p[1], p[2])
         IN  IF e.exc THEN e ELSE EnsureRows(e.db, pairs \ {p})

\* INSERT INTO products (sku is the primary key: a second insert raises), then a
\* stock row per location.
add_product(d, sku, product_name, now) ==
    IF sku_exists(d, sku) THEN Raise(d)
    ELSE LET d1 == [d EXCEPT !.products =
                      [k \in DOMAIN d.products \cup {sku} |->
                         IF k = sku
                         THEN [product_name |-> Strip(product_name), created_at |-> now]
                         ELSE d.products[k]]]
             e == EnsureRows(d1, {<<sku, loc>> : loc \in get_locations(d1)})
         IN  IF e.exc THEN Raise(e.db) ELSE Ret(e.db, TRUE, None)

\* seeded fault: INSERT OR REPLACE INTO products without created_at
update_product_Replace(d, sku, product_name) ==
    IF sku_exists(d, sku)
    THEN Ret([d EXCEPT !.products[sku] =
                [product_name |-> Strip(product_name), created_at |-> 0]], TRUE, None)
    ELSE Ret(d, TRUE, None)

\* UPDATE products SET product_name = ?, ... WHERE sku = ?  (created_at is not set)
update_product(d, sku, product_name) ==
    IF sku_exists(d, sku)
    THEN Ret([d EXCEPT !.products[sku].product_name = Strip(product_name)], TRUE, None)
    ELSE Ret(d, TRUE, None)

add_location(d, raw) ==
    LET loc == Upper(Strip(raw)) IN
    IF loc = "" THEN Ret(d, TRUE, None)
    ELSE LET d1 == [d EXCEPT !.locations = @ \cup {loc}]
             e == EnsureRows(d1, {<<sku, loc>> : sku \in DOMAIN d1.products})
         IN  IF e.exc THEN Raise(e.db) ELSE Ret(e.db, TRUE, None)

\* ------------------------------------------------------------------ CSV import
\* A CSV cell: an integer, a text int() rejects (ValueError), or empty (NaN).
IntCell(n) == [kind |-> "int", val |-> n]
TextCell == [kind |-> "text", val |-> 0]
NaCell == [kind |-> "na", val |-> 0]

\* What an import returns, the store it leaves, and (history) the stock
\* quantities its UPDATE statements wrote, in order.
ImportAcc(d) == [db |-> d, inserted |-> 0, updated |-> 0, applied |-> 0,
                 errors |-> <<>>, wrote |-> <<>>, exc |-> FALSE]

\* the body of the loop of import_products_csv, for row i
ImportProductRow(acc, row, i, now) ==
    LET sku == normalize_sku(row.sku)
        name == Strip(row.product_name)
    IN  IF sku = "" \/ name = "" \/ Lower(name) = "nan"
        THEN [acc EXCEPT !.errors = Append(@, i)]
        ELSE IF sku_exists(acc.db, sku)
             THEN LET r == update_product(acc.db, sku, name) IN
                  IF r.exc THEN [acc EXCEPT !.db = r.db, !.errors = Append(@, i)]
                  ELSE [acc EXCEPT !.db = r.db, !.updated = @ + 1]
             ELSE LET r == add_product(acc.db, sku, name, now) IN
                  IF r.exc THEN [acc EXCEPT !.db = r.db, !.errors = Append(@, i)]
                  ELSE [acc EXCEPT !.db = r.db, !.inserted = @ + 1]

RECURSIVE ImportProductRows(_, _, _, _)
ImportProductRows(acc, rows, i, now) ==
    IF i > Len(rows) THEN acc
    ELSE ImportProductRows(ImportProductRow(acc, rows[i], i, now), rows, i + 1, now)

\* has_cols: the frame has the required columns sku, product_name
import_products_csv(d, has_cols, rows, now) ==
    IF ~has_cols THEN [ImportAcc(d) EXCEPT !.errors = <<0>>]
    ELSE ImportProductRows(ImportAcc(d), rows, 1, now)

\* seeded fault: the UPDATE adds the CSV quantity to the current one
ImportStockTry_Adds(acc, row, i, sku, loc) ==
    IF row.qty.kind # "int" THEN [acc EXCEPT !.errors = Append(@, i)]
    ELSE LET qty == row.qty.val IN
         IF qty < 0 THEN [acc EXCEPT !.errors = Append(@, i)]
         ELSE LET e == ensure_stock_row(acc.db, sku, loc) IN
              IF e.exc THEN [acc EXCEPT !.db = e.db, !.errors = Append(@, i)]
              ELSE LET u == UpdateQtyBy(e.db, sku, loc, qty)
                       w == [acc EXCEPT !.db = u,
                                        !.wrote = Append(@, [sku |-> sku, location |-> loc,
                                                             qty |-> qty])]
                   IN  IF row.low_stock_threshold.kind = "na"
                       THEN [w EXCEPT !.applied = @ + 1]
                       ELSE IF row.low_stock_threshold.kind # "int"
                       THEN [w EXCEPT !.errors = Append(@, i)]
                       ELSE LET t == set_low_stock_threshold(u, sku, loc,
                                                             row.low_stock_threshold.val)
                            IN  IF t.exc THEN [w EXCEPT !.db = t.db, !.errors = Append(@, i)]
                                ELSE [w EXCEPT !.db = t.db, !.applied = @ + 1]

\* seeded fault: the import logs a movement for the quantity it writes
ImportStockTry_Logs(acc, row, i, sku, loc) ==
    IF row.qty.kind # "int" THEN [acc EXCEPT !.errors = Append(@, i)]
    ELSE LET qty == row.qty.val IN
         IF qty < 0 THEN [acc EXCEPT !.errors = Append(@, i)]
         ELSE LET e == ensure_stock_row(acc.db, sku, loc) IN
              IF e.exc THEN [acc EXCEPT !.db = e.db, !.errors = Append(@, i)]
              ELSE LET u == log_movement(UpdateQtyTo(e.db, sku, loc, qty), sku, "ADJUST", qty,
                                         loc, loc, None).db
                       w == [acc EXCEPT !.db = u,
                                        !.wrote = Append(@, [sku |-> sku, location |-> loc,
                                                             qty |-> qty])]
                   IN  IF row.low_stock_threshold.kind = "na"
                       THEN [w EXCEPT !.applied = @ + 1]
                       ELSE IF row.low_stock_threshold.kind # "int"
                       THEN [w EXCEPT !.errors = Append(@, i)]
                       ELSE LET t == set_low_stock_threshold(u, sku, loc,
                                                             row.low_stock_threshold.val)
                            IN  IF t.exc THEN [w EXCEPT !.db = t.db, !.errors = Append(@, i)]
                                ELSE [w EXCEPT !.db = t.db, !.applied = @ + 1]

\* the try-block of the loop of import_stock_csv, for row i
ImportStockTry(acc, row, i, sku, loc) ==
    IF row.qty.kind # "int" THEN [acc EXCEPT !.errors = Append(@, i)]
    ELSE LET qty == row.qty.val IN
         IF qty < 0 THEN [acc EXCEPT !.errors = Append(@, i)]
         ELSE LET e == ensure_stock_row(acc.db, sku, loc) IN
              IF e.exc THEN [acc EXCEPT !.db = e.db, !.errors = Append(@, i)]
              ELSE LET u == UpdateQtyTo(e.db, sku, loc, qty)
                       w == [acc EXCEPT !.db = u,
                                        !.wrote = Append(@, [sku |-> sku, location |-> loc,
                                                             qty |-> qty])]
                   IN  IF row.low_stock_threshold.kind = "na"
                       THEN [w EXCEPT !.applied = @ + 1]
                       ELSE IF row.low_stock_threshold.kind # "int"
                       THEN [w EXCEPT !.errors = Append(@, i)]
                       ELSE LET t == set_low_stock_threshold(u, sku, loc,
                                                             row.low_stock_threshold.val)
                            IN  IF t.exc THEN [w EXCEPT !.db = t.db, !.errors = Append(@, i)]
                                ELSE [w EXCEPT !.db = t.db, !.applied = @ + 1]

\* the body of the loop of import_stock_csv, for row i; add_location is called
\* outside the try-block
ImportStockRow(acc, row, i) ==
    LET sku == normalize_sku(row.sku)
        loc == Upper(Strip(row.location))
    IN  IF ~sku_exists(acc.db, sku) THEN [acc EXCEPT !.errors = Append(@, i)]
        ELSE IF ~location_exists(acc.db, loc)
             THEN LET a == add_location(acc.db, loc) IN
                  IF a.exc THEN [acc EXCEPT !.db = a.db, !.exc = TRUE]
                  ELSE ImportStockTry([acc EXCEPT !.db = a.db], row, i, sku, loc)
             ELSE ImportStockTry(acc, row, i, sku, loc)

RECURSIVE ImportStockRows(_, _, _)
ImportStockRows(acc, rows, i) ==
    IF i > Len(rows) \/ acc.exc THEN acc
    ELSE ImportStockRows(ImportStockRow(acc, rows[i], i), rows, i + 1)

\* has_cols: the frame has the required columns sku, location, qty
import_stock_csv(d, has_cols, rows) ==
    IF ~has_cols THEN [ImportAcc(d) EXCEPT !.errors = <<0>>]
    ELSE ImportStockRows(ImportAcc(d), rows, 1)

\* ------------------------------------------------------------------ state
Procs == {1, 2}

\* history functions are kept sparse: a pair that was never touched has the default
Get(f, k, default) == IF k \in DOMAIN f THEN f[k] ELSE default

Put(f, k, v) == [x \in DOMAIN f \cup {k} |-> IF x = k THEN v ELSE f[x]]

NoTally == [nIn |-> 0, sumIn |-> 0, nOut |-> 0, sumOut |-> 0]

NoBase == [qty |-> 0, at |-> 0]

Tally(sku, loc) == Get(tally, <<sku, loc>>, NoTally)

Base(sku, loc) == Get(syncBase, <<sku, loc>>, NoBase)

NoCall == [op |-> "none"]

SetDB(d) ==
    /\ products' = d.products
    /\ locations' = d.locations
    /\ stock' = d.stock
    /\ movements' = d.movements
    /\ seq' = d.seq

StartDB(d) ==
    /\ products = d.products
    /\ locations = d.locations
    /\ stock = d.stock
    /\ movements = d.movements
    /\ seq = d.seq

\* the calls the model issues keep the store within the bounds
Bounded(d) ==
    /\ Len(d.movements) <= MaxMoves
    /\ \A k \in DOMAIN d.stock : d.stock[k].qty <= MaxQty

\* history: which operation completed last and what it returned
Outcome(op, r) == [op |-> op, ret |-> r.msg]

StartHistory ==
    /\ last = [op |-> "init_db", ret |-> None]
    /\ tally = <<>>
    /\ syncBase = <<>>
    /\ pc = [p \in Procs |-> "idle"]
    /\ call = [p \in Procs |-> NoCall]

Init ==
    /\ StartDB(init_db)
    /\ StartHistory

\* ------------------------------------------------------------------ calls
\* One call of each operation by the single caller: the handler runs to
\* completion on the current store.
CallAddProduct(sku, name, now) ==
    LET r == add_product(DB, sku, name, now) IN
    /\ SetDB(r.db)
    /\ last' = Outcome("add_product", r)
    /\ UNCHANGED <<tally, syncBase, pc, call>>

CallUpdateProduct(sku, name) ==
    LET r == update_product(DB, sku, name) IN
    /\ SetDB(r.db)
    /\ last' = Outcome("update_product", r)
    /\ UNCHANGED <<tally, syncBase, pc, call>>

CallAddLocation(raw) ==
    LET r == add_location(DB, raw) IN
    /\ SetDB(r.db)
    /\ last' = Outcome("add_location", r)
    /\ UNCHANGED <<tally, syncBase, pc, call>>

CallEnsureStockRow(sku, loc) ==
    LET e == ensure_stock_row(DB, sku, loc) IN
    /\ SetDB(e.db)
    /\ last' = [op |-> "ensure_stock_row",
                ret |-> IF e.exc THEN "IntegrityError" ELSE None]
    /\ UNCHANGED <<tally, syncBase, pc, call>>

CallSetLowStockThreshold(sku, loc, thr) ==
    LET r == set_low_stock_threshold(DB, sku, loc, thr) IN
    /\ SetDB(r.db)
    /\ last' = Outcome("set_low_stock_threshold", r)
    /\ UNCHANGED <<tally, syncBase, pc, call>>

CallApplyIn(sku, loc, qty) ==
    LET r == apply_in(DB, sku, loc, qty) IN
    /\ Bounded(r.db)
    /\ SetDB(r.db)
    /\ last' = Outcome("apply_in", r)
    /\ tally' = IF r.ok
                THEN Put(tally, <<sku, loc>>,
                         [Tally(sku, loc) EXCEPT !.nIn = @ + 1, !.sumIn = @ + qty])
                ELSE tally
    /\ UNCHANGED <<syncBase, pc, call>>

CallApplyOut(sku, loc, qty) ==
    LET r == apply_out(DB, sku, loc, qty) IN
    /\ Bounded(r.db)
    /\ SetDB(r.db)
    /\ last' = Outcome("apply_out", r)
    /\ tally' = IF r.ok
                THEN Put(tally, <<sku, loc>>,
                         [Tally(sku, loc) EXCEPT !.nOut = @ + 1, !.sumOut = @ + qty])
                ELSE tally
    /\ UNCHANGED <<syncBase, pc, call>>

CallApplyAdjust(sku, loc, new_qty) ==
    LET r == apply_adjust(DB, sku, loc, new_qty) IN
    /\ Bounded(r.db)
    /\ SetDB(r.db)
    /\ last' = Outcome("apply_adjust", r)
    /\ UNCHANGED <<tally, syncBase, pc, call>>

CallApplyTransfer(sku, loc_from, loc_to, qty) ==
    LET r == apply_transfer(DB, sku, loc_from, loc_to, qty) IN
    /\ Bounded(r.db)
    /\ SetDB(r.db)
    /\ last' = Outcome("apply_transfer", r)
    /\ UNCHANGED <<tally, syncBase, pc, call>>

\* history: the quantities an import wrote become the pairs' new base
RECURSIVE Rebase(_, _, _, _)
Rebase(base, wrote, i, at) ==
    IF i > Len(wrote) THEN base
    ELSE Rebase(Put(base, <<wrote[i].sku, wrote[i].location>>,
                    [qty |-> wrote[i].qty, at |-> at]), wrote, i + 1, at)

CallImportProductsCsv(df, now) ==
    LET r == import_products_csv(DB, df.has_cols, df.rows, now) IN
    /\ SetDB(r.db)
    /\ last' = [op |-> "import_products_csv",
                ret |-> [applied |-> r.inserted + r.updated > 0,
                         errors |-> r.errors # <<>>, exc |-> FALSE]]
    /\ UNCHANGED <<tally, syncBase, pc, call>>

CallImportStockCsv(df) ==
    LET r == import_stock_csv(DB, df.has_cols, df.rows) IN
    /\ Bounded(r.db)
    /\ SetDB(r.db)
    /\ last' = [op |-> "import_stock_csv",
                ret |-> [applied |-> r.applied > 0, errors |-> r.errors # <<>>,
                         exc |-> r.exc]]
    /\ syncBase' = Rebase(syncBase, r.wrote, 1, Len(movements))
    /\ UNCHANGED <<tally, pc, call>>

\* ------------------------------------------------------------------ inputs
ProductRow(sku, name) == [sku |-> sku, product_name |-> name]

StockRow(sku, loc, qty, thr) ==
    [sku |-> sku, location |-> loc, qty |-> qty, low_stock_threshold |-> thr]

\* the frames a caller uploads: one without the required columns, and every
\* frame of up to MaxRows of the given rows
Frames(S) ==
    {[has_cols |-> FALSE, rows |-> <<>>]}
      \cup { [has_cols |-> TRUE, rows |-> rows] :
               rows \in UNION { [1..n -> S] : n \in 0..MaxRows } }

Times == {1}

\* ------------------------------------------------------------------ Spec
\* The whole program, one caller, from the empty store.
ProductRowArgs == { ProductRow("a ", " Cap"), ProductRow(" ", "NaN") }

StockRowArgs ==
    { StockRow("a ", "studio", IntCell(1), NaCell),
      StockRow("b", "studio", IntCell(0 - 1), NaCell) }

AddProduct == \E now \in Times : CallAddProduct("A", "Tee", now)

UpdateProduct == CallUpdateProduct("A", " Cap")

AddLocation == \E raw \in {" new ", " "} : CallAddLocation(raw)

EnsureStockRow == CallEnsureStockRow("A", "STUDIO")

SetLowStockThreshold == CallSetLowStockThreshold("A", "STUDIO", 1)

ApplyIn == CallApplyIn("A", "STUDIO", 1)

ApplyOut == CallApplyOut("A", "STUDIO", 1)

ApplyAdjust == \E new_qty \in {0 - 1, 1} : CallApplyAdjust("A", "STUDIO", new_qty)

ApplyTransfer == \E loc_to \in {"GUDANG", "NEW"} : CallApplyTransfer("A", "STUDIO", loc_to, 1)

ImportProductsCsv ==
    \E df \in Frames(ProductRowArgs), now \in Times : CallImportProductsCsv(df, now)

ImportStockCsv == \E df \in Frames(StockRowArgs) : CallImportStockCsv(df)

Next ==
    \/ AddProduct
    \/ UpdateProduct
    \/ AddLocation
    \/ EnsureStockRow
    \/ SetLowStockThreshold
    \/ ApplyIn
    \/ ApplyOut
    \/ ApplyAdjust
    \/ ApplyTransfer
    \/ ImportProductsCsv
    \/ ImportStockCsv

Spec == Init /\ [][Next]_vars

\* ------------------------------------------------------------------ SpecLedger
\* The four ledger operations on a store that holds products A and B.
SkuArgs == {"A"}
LocArgs == {"STUDIO", "GUDANG"}
QtyArgs == (0 - 1)..2

LedgerDB == add_product(add_product(init_db, "A", "Tee", 1).db, "B", "Tee", 1).db

InitLedger ==
    /\ StartDB(LedgerDB)
    /\ StartHistory

LedgerIn ==
    \E sku \in SkuArgs, loc \in LocArgs, qty \in QtyArgs : CallApplyIn(sku, loc, qty)

LedgerOut ==
    \E sku \in SkuArgs, loc \in LocArgs, qty \in QtyArgs : CallApplyOut(sku, loc, qty)

LedgerAdjust ==
    \E sku \in SkuArgs, loc \in LocArgs, new_qty \in QtyArgs :
      CallApplyAdjust(sku, loc, new_qty)

LedgerTransfer ==
    \E sku \in SkuArgs, loc_from \in LocArgs, loc_to \in LocArgs, qty \in QtyArgs :
      CallApplyTransfer(sku, loc_from, loc_to, qty)

NextLedger ==
    \/ LedgerIn
    \/ LedgerOut
    \/ LedgerAdjust
    \/ LedgerTransfer

SpecLedger == InitLedger /\ [][NextLedger]_vars

\* ------------------------------------------------------------------ SpecInOut
\* Only apply_in and apply_out, on a store whose quantities start at 0.
InOutIn ==
    \E sku \in {"A", "B"}, loc \in LocArgs, qty \in QtyArgs : CallApplyIn(sku, loc, qty)

InOutOut ==
    \E sku \in {"A", "B"}, loc \in LocArgs, qty \in QtyArgs : CallApplyOut(sku, loc, qty)

NextInOut ==
    \/ InOutIn
    \/ InOutOut

SpecInOut == InitLedger /\ [][NextInOut]_vars

\* ------------------------------------------------------------------ SpecSteps
\* Several callers (Streamlit sessions share the database file).  Every
\* exec_sql / run_query_df is its own connection and its own commit, so another
\* caller's statements may fall between any two statements of a handler.  A
\* step is one store statement together with the local computation around it.
StepsDB ==
    import_stock_csv(LedgerDB, TRUE, <<StockRow("a ", "studio", IntCell(1), NaCell)>>).db

InitSteps ==
    /\ StartDB(StepsDB)
    /\ StartHistory

StepLocArgs == {"STUDIO", "GUDANG"}
StepQtyArgs == {0, 1}

\* the callers together append at most MaxMoves movement rows
MayBegin == Len(movements) + Cardinality({q \in Procs : pc[q] # "idle"}) < MaxMoves

\* a handler returns (or raises): r is [msg, ok]
Return(p, op, msg) ==
    /\ pc' = [pc EXCEPT ![p] = "idle"]
    /\ call' = [call EXCEPT ![p] = NoCall]
    /\ last' = [op |-> op, ret |-> msg]

Goto(p, label) ==
    /\ pc' = [pc EXCEPT ![p] = label]
    /\ UNCHANGED last

\* apply_in, lines 249-251: the argument check and ensure_stock_row
BeginIn(p) ==
    /\ pc[p] = "idle"
    /\ MayBegin
    /\ \E location \in StepLocArgs, qty \in StepQtyArgs :
         IF qty <= 0
         THEN /\ Return(p, "apply_in", "Qty must be > 0.")
              /\ UNCHANGED <<products, locations, stock, movements, seq, tally, syncBase>>
         ELSE LET e == ensure_stock_row(DB, "A", location) IN
              /\ SetDB(e.db)
              /\ IF e.exc
                 THEN Return(p, "apply_in", "IntegrityError")
                 ELSE /\ Goto(p, "in_update")
                      /\ call' = [call EXCEPT ![p] =
                                    [op |-> "apply_in", sku |-> "A", location |-> location,
                                     loc_to |-> None, qty |-> qty, current |-> 0]]
              /\ UNCHANGED <<tally, syncBase>>

\* seeded fault: the UPDATE writes an absolute quantity computed from the
\* caller's own copy of the quantity, not qty = qty + ?
InUpdate_Absolute(p) ==
    /\ pc[p] = "in_update"
    /\ SetDB(UpdateQtyTo(DB, call[p].sku, call[p].location, call[p].current + call[p].qty))
    /\ Goto(p, "in_log")
    /\ UNCHANGED <<call, tally, syncBase>>

\* apply_in, lines 252-255: UPDATE stock SET qty = qty + ?
InUpdate(p) ==
    /\ pc[p] = "in_update"
    /\ SetDB(UpdateQtyBy(DB, call[p].sku, call[p].location, call[p].qty))
    /\ Goto(p, "in_log")
    /\ UNCHANGED <<call, tally, syncBase>>

\* apply_in, lines 256-257: log_movement and return
InLog(p) ==
    /\ pc[p] = "in_log"
    /\ LET m == log_movement(DB, call[p].sku, "IN", call[p].qty, None, call[p].location, None)
       IN  /\ SetDB(m.db)
           /\ Return(p, "apply_in", IF m.exc THEN "IntegrityError" ELSE "Stock added.")
           /\ tally' = IF m.exc THEN tally
                       ELSE Put(tally, <<call[p].sku, call[p].location>>,
                                [Tally(call[p].sku, call[p].location) EXCEPT
                                   !.nIn = @ + 1, !.sumIn = @ + call[p].qty])
    /\ UNCHANGED syncBase

\* apply_out, lines 260-262: the argument check and ensure_stock_row
BeginOut(p) ==
    /\ pc[p] = "idle"
    /\ MayBegin
    /\ \E location \in StepLocArgs, qty \in StepQtyArgs :
         IF qty <= 0
         THEN /\ Return(p, "apply_out", "Qty must be > 0.")
              /\ UNCHANGED <<products, locations, stock, movements, seq, tally, syncBase>>
         ELSE LET e == ensure_stock_row(DB, "A", location) IN
              /\ SetDB(e.db)
              /\ IF e.exc
                 THEN Return(p, "apply_out", "IntegrityError")
                 ELSE /\ Goto(p, "out_read")
                      /\ call' = [call EXCEPT ![p] =
                                    [op |-> "apply_out", sku |-> "A", location |-> location,
                                     loc_to |-> None, qty |-> qty, current |-> 0]]
              /\ UNCHANGED <<tally, syncBase>>

\* apply_out, lines 263-265: current = get_stock_qty(...) and the sufficiency check
OutRead(p) ==
    /\ pc[p] = "out_read"
    /\ LET current == get_stock_qty(DB, call[p].sku, call[p].location) IN
       IF current - call[p].qty < 0
       THEN Return(p, "apply_out", "Insufficient stock.")
       ELSE /\ Goto(p, "out_update")
            /\ call' = [call EXCEPT ![p].current = current]
    /\ UNCHANGED <<products, locations, stock, movements, seq, tally, syncBase>>

\* seeded fault: a defended UPDATE ... WHERE qty >= ?, which changes nothing
\* when the quantity has dropped since the caller read it
OutUpdate_Guarded(p) ==
    /\ pc[p] = "out_update"
    /\ SetDB(IF get_stock_qty(DB, call[p].sku, call[p].location) >= call[p].qty
             THEN UpdateQtyBy(DB, call[p].sku, call[p].location, 0 - call[p].qty)
             ELSE DB)
    /\ Goto(p, "out_log")
    /\ UNCHANGED <<call, tally, syncBase>>

\* apply_out, lines 266-269: UPDATE stock SET qty = qty - ?
OutUpdate(p) ==
    /\ pc[p] = "out_update"
    /\ SetDB(UpdateQtyBy(DB, call[p].sku, call[p].location, 0 - call[p].qty))
    /\ Goto(p, "out_log")
    /\ UNCHANGED <<call, tally, syncBase>>

\* apply_out, lines 270-271: log_movement and return
OutLog(p) ==
    /\ pc[p] = "out_log"
    /\ LET m == log_movement(DB, call[p].sku, "OUT", call[p].qty, call[p].location, None, None)
       IN  /\ SetDB(m.db)
           /\ Return(p, "apply_out", IF m.exc THEN "IntegrityError" ELSE "Stock deducted.")
           /\ tally' = IF m.exc THEN tally
                       ELSE Put(tally, <<call[p].sku, call[p].location>>,
                                [Tally(call[p].sku, call[p].location) EXCEPT
                                   !.nOut = @ + 1, !.sumOut = @ + call[p].qty])
    /\ UNCHANGED syncBase

\* apply_transfer, lines 288-292: the argument checks and ensure_stock_row(sku, loc_from)
BeginTransfer(p) ==
    /\ pc[p] = "idle"
    /\ MayBegin
    /\ \E loc_from \in StepLocArgs, loc_to \in StepLocArgs, qty \in StepQtyArgs :
         IF loc_from = loc_to
         THEN /\ Return(p, "apply_transfer", "From and To locations must be different.")
              /\ UNCHANGED <<products, locations, stock, movements, seq, tally, syncBase>>
         ELSE IF qty <= 0
         THEN /\ Return(p, "apply_transfer", "Qty must be > 0.")
              /\ UNCHANGED <<products, locations, stock, movements, seq, tally, syncBase>>
         ELSE LET e == ensure_stock_row(DB, "A", loc_from) IN
              /\ SetDB(e.db)
              /\ IF e.exc
                 THEN Return(p, "apply_transfer", "IntegrityError")
                 ELSE /\ Goto(p, "xf_ensure_to")
                      /\ call' = [call EXCEPT ![p] =
                                    [op |-> "apply_transfer", sku |-> "A",
                                     location |-> loc_from, loc_to |-> loc_to,
                                     qty |-> qty, current |-> 0]]
              /\ UNCHANGED <<tally, syncBase>>

\* apply_transfer, line 293: ensure_stock_row(sku, loc_to)
XfEnsureTo(p) ==
    /\ pc[p] = "xf_ensure_to"
    /\ LET e == ensure_stock_row(DB, call[p].sku, call[p].loc_to) IN
       /\ SetDB(e.db)
       /\ IF e.exc
          THEN Return(p, "apply_transfer", "IntegrityError")
          ELSE Goto(p, "xf_read") /\ UNCHANGED call
    /\ UNCHANGED <<tally, syncBase>>

\* apply_transfer, lines 294-296: current = get_stock_qty(sku, loc_from) and the check
XfRead(p) ==
    /\ pc[p] = "xf_read"
    /\ LET current == get_stock_qty(DB, call[p].sku, call[p].location) IN
       IF current - call[p].qty < 0
       THEN Return(p, "apply_transfer", "Insufficient stock.")
       ELSE /\ Goto(p, "xf_sub")
            /\ call' = [call EXCEPT ![p].current = current]
    /\ UNCHANGED <<products, locations, stock, movements, seq, tally, syncBase>>

\* apply_transfer, lines 299-302: subtract from the source
XfSub(p) ==
    /\ pc[p] = "xf_sub"
    /\ SetDB(UpdateQtyBy(DB, call[p].sku, call[p].location, 0 - call[p].qty))
    /\ Goto(p, "xf_add")
    /\ UNCHANGED <<call, tally, syncBase>>

\* apply_transfer, lines 305-308: add to the destination
XfAdd(p) ==
    /\ pc[p] = "xf_add"
    /\ SetDB(UpdateQtyBy(DB, call[p].sku, call[p].loc_to, call[p].qty))
    /\ Goto(p, "xf_log")
    /\ UNCHANGED <<call, tally, syncBase>>

\* apply_transfer, lines 310-311: log_movement and return
XfLog(p) ==
    /\ pc[p] = "xf_log"
    /\ LET m == log_movement(DB, call[p].sku, "TRANSFER", call[p].qty,
                             call[p].location, call[p].loc_to, None)
       IN  /\ SetDB(m.db)
           /\ Return(p, "apply_transfer",
                     IF m.exc THEN "IntegrityError" ELSE "Transfer completed.")
    /\ UNCHANGED <<tally, syncBase>>

NextSteps ==
    \E p \in Procs :
      \/ BeginIn(p)
      \/ InUpdate(p)
      \/ InLog(p)
      \/ BeginOut(p)
      \/ OutRead(p)
      \/ OutUpdate(p)
      \/ OutLog(p)
      \/ BeginTransfer(p)
      \/ XfEnsureTo(p)
      \/ XfRead(p)
      \/ XfSub(p)
      \/ XfAdd(p)
      \/ XfLog(p)

SpecSteps == InitSteps /\ [][NextSteps]_vars


\* ------------------------------------------------------------------ SpecRows
\* add_product statement by statement (INSERT INTO products, then one
\* ensure_stock_row per location of get_locations()), while ensure_stock_row is
\* also called directly (the stock page) between those statements; the other
\* calls run to completion when no add_product is under way.

\* SELECT location FROM locations ORDER BY location
LocOrder == <<"GUDANG", "NEW", "SHOPEE", "STUDIO", "TOKOPEDIA">>

SortedLocations(d) ==
    LET In(loc) == loc \in get_locations(d) IN SelectSeq(LocOrder, In)

RowsIdle == \A p \in Procs : pc[p] = "idle"

\* add_product, lines 166-180: INSERT INTO products; line 183: get_locations()
RowsBeginAddProduct ==
    /\ pc[1] = "idle"
    /\ \E sku \in {"A", "B"}, now \in Times :
         IF sku_exists(DB, sku)
         THEN /\ Return(1, "add_product", "IntegrityError")
              /\ UNCHANGED <<products, locations, stock, movements, seq, tally, syncBase>>
         ELSE /\ products' = [k \in DOMAIN products \cup {sku} |->
                                IF k = sku
                                THEN [product_name |-> "Tee", created_at |-> now]
                                ELSE products[k]]
              /\ pc' = [pc EXCEPT ![1] = "add_rows"]
              /\ call' = [call EXCEPT ![1] = [op |-> "add_product", sku |-> sku,
                                             todo |-> SortedLocations(DB)]]
              /\ UNCHANGED <<locations, stock, movements, seq, last, tally, syncBase>>

\* add_product, lines 183-184: one iteration of the loop, and the return after
\* the last one
RowsAddProductRow ==
    /\ pc[1] = "add_rows"
    /\ LET e == ensure_stock_row(DB, call[1].sku, Head(call[1].todo)) IN
       /\ SetDB(e.db)
       /\ IF e.exc
          THEN Return(1, "add_product", "IntegrityError")
          ELSE IF Tail(call[1].todo) = <<>>
          THEN Return(1, "add_product", None)
          ELSE /\ call' = [call EXCEPT ![1].todo = Tail(@)]
               /\ UNCHANGED <<pc, last>>
       /\ UNCHANGED <<tally, syncBase>>

RowsEnsure ==
    \E sku \in {"A", "B"}, loc \in {"STUDIO", "GUDANG", "NEW"} : CallEnsureStockRow(sku, loc)

RowsAddLocation == RowsIdle /\ CallAddLocation(" new ")

RowsSetThreshold == RowsIdle /\ CallSetLowStockThreshold("A", "STUDIO", 1)

RowsApplyIn == RowsIdle /\ CallApplyIn("A", "STUDIO", 1)

NextRows ==
    \/ RowsBeginAddProduct
    \/ RowsAddProductRow
    \/ RowsEnsure
    \/ RowsAddLocation
    \/ RowsSetThreshold
    \/ RowsApplyIn

SpecRows == Init /\ [][NextRows]_vars


\* ------------------------------------------------------------------ SpecProducts
\* one caller that adds products (at time 1), edits them, imports product
\* frames (at time 2) and receives stock

ProductBatchRows ==
    { ProductRow("a ", " Cap"), ProductRow("b", " Cap"), ProductRow(" ", "NaN") }

ProductsAdd == \E sku \in {"A", "B"} : CallAddProduct(sku, "Tee", 1)

ProductsUpdate == \E sku \in {"A", "B"} : CallUpdateProduct(sku, " Hat")

ProductsImport == \E df \in Frames(ProductBatchRows) : CallImportProductsCsv(df, 2)

ProductsApplyIn == CallApplyIn("A", "STUDIO", 1)

NextProducts ==
    \/ ProductsAdd
    \/ ProductsUpdate
    \/ ProductsImport
    \/ ProductsApplyIn

SpecProducts == Init /\ [][NextProducts]_vars

\* ------------------------------------------------------------------ properties
\* helpers of the properties below
RECURSIVE SumQty(_)
SumQty(rows) == IF rows = <<>> THEN 0 ELSE rows[1].qty + SumQty(Tail(rows))

RowsIn(d, sku, loc) ==
    LET T(m) == m.movement_type = "IN" /\ m.sku = sku /\ m.location_to = loc
    IN  SelectSeq(d.movements, T)

RowsOut(d, sku, loc) ==
    LET T(m) == m.movement_type = "OUT" /\ m.sku = sku /\ m.location_from = loc
    IN  SelectSeq(d.movements, T)

\* d2's log is d's log plus exactly one row, with these columns
AppendsOne(d, d2, movement_type, sku, location_from, location_to, qty) ==
    /\ Len(d2.movements) = Len(d.movements) + 1
    /\ SubSeq(d2.movements, 1, Len(d.movements)) = d.movements
    /\ LET m == d2.movements[Len(d2.movements)] IN
       /\ m.movement_type = movement_type
       /\ m.sku = sku
       /\ m.location_from = location_from
       /\ m.location_to = location_to
       /\ m.qty = qty

RECURSIVE SumOver(_, _)
SumOver(d, keys) ==
    IF keys = {} THEN 0
    ELSE LET k == CHOOSE x \in keys : TRUE IN d.stock[k].qty + SumOver(d, keys \ {k})

\* the sum of Stock.qty over all locations of one SKU
Total(d, sku) == SumOver(d, {k \in DOMAIN d.stock : k[1] = sku})

\* C1: in every state reached by apply_in / apply_out calls alone from quantity
\* 0, each pair's Stock.qty is the sum of the quantities of its successful
\* apply_in calls minus that of its successful apply_out calls, the log holds
\* one IN (OUT) row per successful apply_in (apply_out) call with those
\* quantities and nothing else, and a successful call appends exactly one row
\* of its type whose qty is the quantity passed.
C1_InOutSum ==
    /\ \A sku \in AnySku, loc \in AnyLoc :
         /\ get_stock_qty(DB, sku, loc) = Tally(sku, loc).sumIn - Tally(sku, loc).sumOut
         /\ Len(RowsIn(DB, sku, loc)) = Tally(sku, loc).nIn
         /\ SumQty(RowsIn(DB, sku, loc)) = Tally(sku, loc).sumIn
         /\ Len(RowsOut(DB, sku, loc)) = Tally(sku, loc).nOut
         /\ SumQty(RowsOut(DB, sku, loc)) = Tally(sku, loc).sumOut
    /\ \A i \in 1..Len(movements) : movements[i].movement_type \in {"IN", "OUT"}
    /\ \A sku \in AnySku, loc \in AnyLoc, qty \in AnyQty :
         /\ LET r == apply_in(DB, sku, loc, qty) IN
            r.ok => AppendsOne(DB, r.db, "IN", sku, None, loc, qty)
         /\ LET r == apply_out(DB, sku, loc, qty) IN
            r.ok => AppendsOne(DB, r.db, "OUT", sku, loc, None, qty)

C1_Witness ==
    \E sku \in AnySku, loc \in AnyLoc :
      /\ Tally(sku, loc).nIn >= 1
      /\ Tally(sku, loc).nOut >= 1
      /\ last = [op |-> "apply_out", ret |-> "Stock deducted."]

\* C2: from every reachable store, for every product and existing locations,
\* apply_out with qty above the current quantity at the location, and
\* apply_transfer with qty above the current quantity at the source, return
\* (False, message) without raising and leave every table as it was: no
\* Stock.qty changes and no Movement row is appended.
C2_InsufficientUnchanged ==
    \A sku \in DOMAIN products, loc \in locations, qty \in AnyQty :
      qty > get_stock_qty(DB, sku, loc) =>
        /\ LET r == apply_out(DB, sku, loc, qty) IN
           ~r.ok /\ ~r.exc /\ r.db = DB
        /\ \A loc_to \in locations :
             LET r == apply_transfer(DB, sku, loc, loc_to, qty) IN
             ~r.ok /\ ~r.exc /\ r.db = DB

C2_Witness ==
    /\ last = [op |-> "apply_out", ret |-> "Insufficient stock."]
    /\ \E k \in DOMAIN stock : stock[k].qty > 0

\* C4: from every reachable store and for all arguments, apply_transfer leaves
\* the sum of Stock.qty over the locations of every SKU as it was, and when it
\* succeeds it appends exactly one row, of type TRANSFER, whose location_from,
\* location_to and qty are the call's arguments.
C4_TransferConserves ==
    \A sku \in AnySku, loc_from \in AnyLoc, loc_to \in AnyLoc, qty \in AnyQty :
      LET r == apply_transfer(DB, sku, loc_from, loc_to, qty) IN
      /\ r.db.stock = stock \/ \A s \in AnySku : Total(r.db, s) = Total(DB, s)
      /\ r.ok => AppendsOne(DB, r.db, "TRANSFER", sku, loc_from, loc_to, qty)

C4_Witness ==
    /\ last = [op |-> "apply_transfer", ret |-> "Transfer completed."]
    /\ movements[Len(movements)].movement_type = "TRANSFER"

\* apply_out(sku, A, q) followed, only if it succeeded, by apply_in(sku, B, q)
OutThenIn(d, sku, loc_from, loc_to, qty) ==
    LET o == apply_out(d, sku, loc_from, qty) IN
    IF o.ok THEN apply_in(o.db, sku, loc_to, qty) ELSE o

\* what C5 says of one sku, A, B, q: the two runs succeed together and leave the
\* same products, locations and stock rows; their logs differ by the rows
\* appended (one TRANSFER against one OUT plus one IN) and by nothing else.
TransferAsOutIn(sku, loc_from, loc_to, qty) ==
    LET t == apply_transfer(DB, sku, loc_from, loc_to, qty)
        c == OutThenIn(DB, sku, loc_from, loc_to, qty)
    IN  /\ t.ok <=> c.ok
        /\ t.db.stock = c.db.stock
        /\ t.db.products = c.db.products
        /\ t.db.locations = c.db.locations
        /\ IF t.ok
           THEN /\ AppendsOne(DB, t.db, "TRANSFER", sku, loc_from, loc_to, qty)
                /\ Len(c.db.movements) = Len(movements) + 2
                /\ SubSeq(c.db.movements, 1, Len(movements)) = movements
                /\ c.db.movements[Len(movements) + 1].movement_type = "OUT"
                /\ c.db.movements[Len(movements) + 2].movement_type = "IN"
           ELSE t.db.movements = movements /\ c.db.movements = movements

\* C5 as stated: for all locations A and B, also A = B.
C5_AsStated ==
    \A sku \in DOMAIN products, loc_from \in locations, loc_to \in locations,
       qty \in AnyQty :
      TransferAsOutIn(sku, loc_from, loc_to, qty)

\* C5 amended: for every product, existing locations A # B and every q,
\* apply_transfer(sku, A, B, q) succeeds exactly when apply_out(sku, A, q)
\* followed by apply_in(sku, B, q) succeeds, both runs leave the same Stock
\* rows, and they differ only in the Movement rows appended.
C5_TransferAsOutIn ==
    \A sku \in DOMAIN products, loc_from \in locations, loc_to \in locations,
       qty \in AnyQty :
      loc_from # loc_to => TransferAsOutIn(sku, loc_from, loc_to, qty)

C5_Witness ==
    /\ last = [op |-> "apply_transfer", ret |-> "Transfer completed."]
    /\ \E sku \in DOMAIN products, loc_from \in locations, loc_to \in locations :
         /\ loc_from # loc_to
         /\ get_stock_qty(DB, sku, loc_from) > 0
         /\ get_stock_qty(DB, sku, loc_to) > 0

C7_InvalidUnchanged ==
    \A sku \in AnySku, loc \in AnyLoc, qty \in AnyQty :
      /\ qty <= 0 =>
           /\ LET r == apply_in(DB, sku, loc, qty) IN ~r.ok /\ ~r.exc /\ r.db = DB
           /\ LET r == apply_out(DB, sku, loc, qty) IN ~r.ok /\ ~r.exc /\ r.db = DB
           /\ \A loc_to \in AnyLoc :
                LET r == apply_transfer(DB, sku, loc, loc_to, qty) IN
                ~r.ok /\ ~r.exc /\ r.db = DB
      /\ qty < 0 =>
           LET r == apply_adjust(DB, sku, loc, qty) IN ~r.ok /\ ~r.exc /\ r.db = DB
      /\ LET r == apply_transfer(DB, sku, loc, loc, qty) IN ~r.ok /\ ~r.exc /\ r.db = DB

C7_Witness ==
    /\ last = [op |-> "apply_transfer", ret |-> "From and To locations must be different."]
    /\ \E k \in DOMAIN stock : stock[k].qty > 0

\* C3 as stated: no reachable state, the states between a handler's committed
\* statements included, shows a transfer whose source is decremented while its
\* destination is not yet incremented (the caller stands before the second
\* UPDATE) or its TRANSFER row not yet appended (before log_movement).
C3_TransferAtomic ==
    \A p \in Procs : pc[p] \notin {"xf_add", "xf_log"}

\* the signed change a movement row records for (sku, loc)
Effect(m, sku, loc) ==
    IF m.sku # sku THEN 0
    ELSE CASE m.movement_type = "IN" -> IF m.location_to = loc THEN m.qty ELSE 0
           [] m.movement_type = "OUT" -> IF m.location_from = loc THEN 0 - m.qty ELSE 0
           [] m.movement_type = "TRANSFER" ->
                (IF m.location_to = loc THEN m.qty ELSE 0)
                  - (IF m.location_from = loc THEN m.qty ELSE 0)
           [] m.movement_type = "ADJUST" ->
                IF m.location_from = loc THEN m.notes.delta ELSE 0
           [] OTHER -> 0

RECURSIVE NetEffect(_, _, _)
NetEffect(rows, sku, loc) ==
    IF rows = <<>> THEN 0
    ELSE Effect(rows[1], sku, loc) + NetEffect(Tail(rows), sku, loc)

\* C8: in every state the single caller reaches, the Stock.qty of each
\* (sku, location) is the quantity the last import_stock_csv row wrote for the
\* pair (0 if none) plus the net effect of the Movement rows appended since:
\* +qty for IN to the location, -qty for OUT from it, -/+ qty for TRANSFER
\* from/to it, and the signed delta of each ADJUST at it.
C8_StockIsBasePlusNet ==
    \A sku \in AnySku, loc \in AnyLoc :
      get_stock_qty(DB, sku, loc)
        = Base(sku, loc).qty
            + NetEffect(SubSeq(movements, Base(sku, loc).at + 1, Len(movements)), sku, loc)

C8_Witness ==
    /\ <<"A", "STUDIO">> \in DOMAIN syncBase
    /\ Base("A", "STUDIO").qty > 0
    /\ \E i \in (Base("A", "STUDIO").at + 1)..Len(movements) :
         /\ movements[i].movement_type = "ADJUST"
         /\ movements[i].location_from = "STUDIO"
         /\ movements[i].notes.delta < 0

\* C9: every step of the program keeps the Movement rows it found, unchanged
\* and in place, and every row it appends has an id above the id of every row
\* before it.
C9_AppendOnly ==
    [][ /\ Len(movements') >= Len(movements)
        /\ SubSeq(movements', 1, Len(movements)) = movements
        /\ \A i \in (Len(movements) + 1)..Len(movements') :
             \A j \in 1..(i - 1) : movements'[i].id > movements'[j].id ]_vars

C9_Witness ==
    /\ Len(movements) >= 2
    /\ movements[2].id > movements[1].id
    /\ last.op \in {"apply_in", "apply_out", "apply_adjust", "apply_transfer"}

\* the arguments C10 quantifies over
AnyProductFrames ==
    Frames(ProductRowArgs)
      \cup { [has_cols |-> TRUE, rows |-> <<ProductRow(sku, name)>>] :
               sku \in {"a ", "b", " "}, name \in {" Cap", "NaN"} }

AnyStockFrames ==
    Frames(StockRowArgs)
      \cup { [has_cols |-> TRUE, rows |-> <<StockRow(sku, loc, qty, thr)>>] :
               sku \in {"a "}, loc \in {"studio", " new "},
               qty \in {IntCell(0 - 1), IntCell(2), TextCell},
               thr \in {NaCell, IntCell(1), TextCell} }

\* C10: from every reachable store and for all arguments, add_product,
\* update_product, add_location, ensure_stock_row, set_low_stock_threshold,
\* import_products_csv and import_stock_csv leave the Movement log (and its id
\* sequence) as it was, and so does every apply_in, apply_out, apply_adjust and
\* apply_transfer call that does not succeed.
C10_OnlyLedgerOpsLog ==
    LET Same(d) == d.movements = movements /\ d.seq = seq IN
    /\ \A sku \in AnySku :
         /\ \A now \in Times : Same(add_product(DB, sku, "Tee", now).db)
         /\ Same(update_product(DB, sku, " Cap").db)
         /\ \A loc \in {"STUDIO", "NEW"} :
              /\ Same(ensure_stock_row(DB, sku, loc).db)
              /\ \A thr \in {0, 1} : Same(set_low_stock_threshold(DB, sku, loc, thr).db)
              /\ \A qty \in AnyQty :
                   /\ LET r == apply_in(DB, sku, loc, qty) IN ~r.ok => Same(r.db)
                   /\ LET r == apply_out(DB, sku, loc, qty) IN ~r.ok => Same(r.db)
                   /\ LET r == apply_adjust(DB, sku, loc, qty) IN ~r.ok => Same(r.db)
                   /\ \A loc_to \in {"STUDIO", "GUDANG", "NEW"} :
                        LET r == apply_transfer(DB, sku, loc, loc_to, qty) IN
                        ~r.ok => Same(r.db)
    /\ \A raw \in {" new ", " ", "studio"} : Same(add_location(DB, raw).db)
    /\ \A df \in AnyProductFrames, now \in Times :
         Same(import_products_csv(DB, df.has_cols, df.rows, now).db)
    /\ \A df \in AnyStockFrames : Same(import_stock_csv(DB, df.has_cols, df.rows).db)

C10_Witness ==
    /\ last.op = "import_stock_csv"
    /\ last.ret.applied
    /\ Len(movements) >= 1
    /\ Base("A", "STUDIO").at = Len(movements)
    /\ get_stock_qty(DB, "A", "STUDIO") # NetEffect(movements, "A", "STUDIO")

\* C11 as stated: in every reachable state every Movement row has qty > 0.
C11_QtyPositive ==
    \A i \in 1..Len(movements) : movements[i].qty > 0

\* C12 as stated: from every reachable store, apply_in, apply_out, apply_adjust
\* and apply_transfer called with a sku that is not in products or a location
\* that is not in locations (and arguments that are otherwise valid) return
\* (False, message), do not raise, and create no Stock or Movement row.
C12_UnknownReturnsFailure ==
    LET Failure(r) == /\ ~r.ok
                      /\ ~r.exc
                      /\ DOMAIN r.db.stock = DOMAIN stock
                      /\ r.db.movements = movements
    IN  \A sku \in AnySku, loc \in AnyLoc, qty \in 1..MaxQty :
          /\ (~sku_exists(DB, sku) \/ ~location_exists(DB, loc)) =>
               /\ Failure(apply_in(DB, sku, loc, qty))
               /\ Failure(apply_out(DB, sku, loc, qty))
               /\ Failure(apply_adjust(DB, sku, loc, qty))
          /\ \A loc_to \in AnyLoc \ {loc} :
               (~sku_exists(DB, sku) \/ ~location_exists(DB, loc)
                  \/ ~location_exists(DB, loc_to)) =>
                 Failure(apply_transfer(DB, sku, loc, loc_to, qty))

\* C13: in every reachable state, also between the statements of add_product,
\* and for every existing product and location: ensure_stock_row does not
\* raise; if the pair has no Stock row it adds exactly that row, with qty 0 and
\* low_stock_threshold 0, and changes nothing else; if the pair has a row the
\* store stays as it was; a second call changes nothing; and no step of the
\* program removes a Stock row.
C13_EnsureIdempotent ==
    /\ [](\A sku \in DOMAIN products, loc \in locations :
            LET k == <<sku, loc>>
                e == ensure_stock_row(DB, sku, loc)
                e2 == ensure_stock_row(e.db, sku, loc)
            IN  /\ ~e.exc
                /\ IF k \in DOMAIN stock
                   THEN e.db = DB
                   ELSE /\ DOMAIN e.db.stock = DOMAIN stock \cup {k}
                        /\ e.db.stock[k] = [qty |-> 0, low_stock_threshold |-> 0]
                        /\ \A x \in DOMAIN stock : e.db.stock[x] = stock[x]
                        /\ e.db.products = products
                        /\ e.db.locations = locations
                        /\ e.db.movements = movements
                /\ ~e2.exc
                /\ e2.db = e.db)
    /\ [][DOMAIN stock \subseteq DOMAIN stock']_vars

C13_Witness ==
    /\ last = [op |-> "ensure_stock_row", ret |-> None]
    /\ <<"A", "STUDIO">> \in DOMAIN stock
    /\ stock[<<"A", "STUDIO">>].qty > 0
    /\ pc[1] = "add_rows"
    /\ call[1].sku = "B"
    /\ Head(call[1].todo) = "GUDANG"
    /\ <<"B", "STUDIO">> \in DOMAIN stock

\* the rows C14 is stated over: one with a sku that is in no store reached
\* here, two valid ones, and one valid by C14's terms whose threshold cell is
\* a text
BatchRows ==
    { StockRow("zz", "studio", IntCell(1), NaCell),
      StockRow("a ", "studio", IntCell(2), NaCell),
      StockRow("a ", "gudang", IntCell(1), IntCell(1)),
      StockRow("a ", "studio", IntCell(1), TextCell) }

\* C14's valid row: known SKU and qty >= 0
ValidRow(d, row) ==
    /\ sku_exists(d, normalize_sku(row.sku))
    /\ row.qty.kind = "int"
    /\ row.qty.val >= 0

\* C14 as stated: from every reachable store and for every batch, a batch of
\* nothing but unknown-SKU rows leaves the store as it was; every unknown-SKU
\* row is recorded as exactly one error; every valid row (known SKU, qty >= 0)
\* that is the last one of its (sku, location) in the batch leaves that pair's
\* quantity at its qty, whatever rows come before or after it; and the applied
\* count returned is the number of valid rows.
C14_RowIndependence ==
    \A df \in Frames(BatchRows) :
      LET rows == df.rows
          r == import_stock_csv(DB, df.has_cols, rows)
          Pair(i) == <<normalize_sku(rows[i].sku), Upper(Strip(rows[i].location))>>
          Valid == {i \in 1..Len(rows) : ValidRow(DB, rows[i])}
          Unknown == {i \in 1..Len(rows) : ~sku_exists(DB, normalize_sku(rows[i].sku))}
          At(i) == {j \in 1..Len(r.errors) : r.errors[j] = i}
      IN  df.has_cols =>
            /\ ~r.exc
            /\ Unknown = 1..Len(rows) => r.db = DB
            /\ \A i \in Unknown : Cardinality(At(i)) = 1
            /\ \A i \in Valid :
                 (\A j \in Valid : j > i => Pair(j) # Pair(i)) =>
                   get_stock_qty(r.db, Pair(i)[1], Pair(i)[2]) = rows[i].qty.val
            /\ r.applied = Cardinality(Valid)

\* C15: in every reachable state update_product on an existing sku sets the
\* product's attributes to the ones passed and leaves its created_at, the set
\* of Product rows, every Stock row and every Movement row as they were; and no
\* step of the program (add_product, update_product, import_products_csv,
\* apply_in) removes a Product row or changes the created_at of one.
C15_CreatedAtPreserved ==
    /\ [](\A sku \in DOMAIN products, name \in {" Hat", " Cap"} :
            LET r == update_product(DB, sku, name) IN
            /\ ~r.exc
            /\ r.db.products[sku].product_name = Strip(name)
            /\ r.db.products[sku].created_at = products[sku].created_at
            /\ DOMAIN r.db.products = DOMAIN products
            /\ \A k \in DOMAIN products \ {sku} : r.db.products[k] = products[k]
            /\ r.db.stock = stock
            /\ r.db.movements = movements
            /\ r.db.locations = locations)
    /\ [][\A sku \in DOMAIN products :
            /\ sku \in DOMAIN products'
            /\ products'[sku].created_at = products[sku].created_at]_vars

C15_Witness ==
    /\ DOMAIN products = {"A", "B"}
    /\ products["A"] = [product_name |-> "Cap", created_at |-> 1]
    /\ products["B"] = [product_name |-> "Hat", created_at |-> 2]
    /\ last.op = "update_product"
    /\ Len(movements) > 0

\* C16: apply_out's UPDATE is not conditioned on what the quantity has become
\* since the caller read it: every step in which a caller executes it lowers
\* the Stock.qty of the call's pair by the call's qty and leaves every other
\* row alone, whatever the quantity is by then, so that two calls that both
\* passed the sufficiency check on the same reading take the quantity below 0
\* (the state C16_Witness describes).
C16_OutRaceUndefended ==
    [][\A p \in Procs :
         (pc[p] = "out_update" /\ pc'[p] = "out_log") =>
           /\ call[p].current - call[p].qty >= 0
           /\ stock' = [stock EXCEPT ![<<call[p].sku, call[p].location>>].qty =
                                       @ - call[p].qty]]_vars

C16_Witness ==
    /\ \A p \in Procs : /\ pc[p] = "out_log"
                        /\ call[p].op = "apply_out"
                        /\ call[p].location = "STUDIO"
                        /\ call[p].current - call[p].qty >= 0
    /\ stock[<<"A", "STUDIO">>].qty < 0

\* C17: with a single caller whose calls run to completion, every Stock row of
\* every reachable state has qty >= 0, and from every reachable store no
\* apply_in, apply_out, apply_adjust, apply_transfer, set_low_stock_threshold,
\* add_product, add_location or import_stock_csv call, with any arguments,
\* leaves a row with a negative qty.
C17_NonNegative ==
    LET NonNeg(d) == d.stock = stock \/ \A k \in DOMAIN d.stock : d.stock[k].qty >= 0 IN
    /\ \A k \in DOMAIN stock : stock[k].qty >= 0
    /\ \A sku \in {"A", "ZZ"} :
         /\ \A now \in Times : NonNeg(add_product(DB, sku, "Tee", now).db)
         /\ \A loc \in {"STUDIO", "NEW"}, qty \in AnyQty :
              /\ NonNeg(apply_in(DB, sku, loc, qty).db)
              /\ NonNeg(apply_out(DB, sku, loc, qty).db)
              /\ NonNeg(apply_adjust(DB, sku, loc, qty).db)
              /\ NonNeg(set_low_stock_threshold(DB, sku, loc, qty).db)
              /\ \A loc_to \in {"STUDIO", "GUDANG", "NEW"} :
                   NonNeg(apply_transfer(DB, sku, loc, loc_to, qty).db)
    /\ \A raw \in {" new ", " ", "studio"} : NonNeg(add_location(DB, raw).db)
    /\ \A df \in AnyStockFrames :
         Len(df.rows) = 1 => NonNeg(import_stock_csv(DB, df.has_cols, df.rows).db)

C17_Witness ==
    /\ last = [op |-> "apply_out", ret |-> "Stock deducted."]
    /\ stock[<<"A", "STUDIO">>].qty = 0
    /\ <<"A", "GUDANG">> \in DOMAIN stock
    /\ stock[<<"A", "GUDANG">>].qty > 0

\* what the committed UPDATEs of the calls under way have changed at (sku, loc)
\* and log_movement has not recorded yet
InFlight(p, sku, loc) ==
    IF pc[p] = "idle" \/ call[p].sku # sku THEN 0
    ELSE CASE pc[p] = "in_log" -> IF call[p].location = loc THEN call[p].qty ELSE 0
           [] pc[p] = "out_log" -> IF call[p].location = loc THEN 0 - call[p].qty ELSE 0
           [] pc[p] = "xf_add" -> IF call[p].location = loc THEN 0 - call[p].qty ELSE 0
           [] pc[p] = "xf_log" ->
                (IF call[p].loc_to = loc THEN call[p].qty ELSE 0)
                  - (IF call[p].location = loc THEN call[p].qty ELSE 0)
           [] OTHER -> 0

RECURSIVE SumInFlight(_, _, _)
SumInFlight(ps, sku, loc) ==
    IF ps = {} THEN 0
    ELSE LET p == CHOOSE x \in ps : TRUE IN
         InFlight(p, sku, loc) + SumInFlight(ps \ {p}, sku, loc)

\* C18: under every interleaving of the committed statements of concurrent
\* apply_in, apply_out and apply_transfer calls, the Stock.qty of each pair is
\* its initial quantity plus the net of the Movement rows plus the UPDATEs of
\* the calls under way that are not logged yet, and the log holds exactly one
\* IN row per completed apply_in call, with its quantity; so whenever no call
\* is under way the quantity is the initial one plus the sum of the quantities
\* of all apply_in calls (minus what the other calls took): no increment is lost.
C18_NoLostIncrement ==
    \A loc \in AnyLoc :
      /\ get_stock_qty(DB, "A", loc)
           = get_stock_qty(StepsDB, "A", loc) + NetEffect(movements, "A", loc)
               + SumInFlight(Procs, "A", loc)
      /\ Len(RowsIn(DB, "A", loc)) = Tally("A", loc).nIn
      /\ SumQty(RowsIn(DB, "A", loc)) = Tally("A", loc).sumIn

C18_Witness ==
    /\ \A p \in Procs : pc[p] = "idle"
    /\ Len(movements) = 2
    /\ \A i \in 1..2 : /\ movements[i].movement_type = "IN"
                       /\ movements[i].location_to = "STUDIO"
    /\ last = [op |-> "apply_in", ret |-> "Stock added."]
    /\ stock[<<"A", "STUDIO">>].qty = get_stock_qty(StepsDB, "A", "STUDIO") + 2

====
